---- MODULE Spec2Model ----
(***************************************************************************)
(* The session-scoped message relay of cotomata's backend                  *)
(* (backend/src/server.js and its second copy with the Jack/Jane           *)
(* channels): the session registry activeSessions, the socket.io rooms,    *)
(* the redis subscriber connection and the socket event handlers.          *)
(*                                                                         *)
(* Node runs every handler to its first await without interruption, and    *)
(* every continuation after an await without interruption.  A handler is   *)
(* therefore one action up to the await and one action for what follows.   *)
(* The subscriber is one redis connection: its commands are executed by    *)
(* the redis server in the order they were sent and their replies come     *)
(* back in that order.                                                     *)
(***************************************************************************)
EXTENDS Integers, Sequences, FiniteSets, TLC

\* ---------------------------------------------------------------- bounds
MaxConns    == 2    \* sockets that ever connect
MaxSessions == 2    \* uuids that are ever generated
MaxInflight == 1    \* subscriber commands that await their reply at once
MaxFocusSessions == 1 \* uuids generated where one session is followed
MaxConcurrent   == 2  \* subscriber commands in flight where they overlap
MaxFetches      == 1  \* init_process fetches awaiting the sandbox at once
MaxRequests     == 2  \* promises the browser's provider ever creates
MaxMessages     == 1  \* messages kept in the provider's state at once

Conns      == 1..MaxConns
SessionIds == 1..MaxSessions

\* what a client can put in the sessionId field: a session id or nothing
\* (undefined / "" : every value for which !sessionId is true)
NoId       == 0
ClientIds  == SessionIds \cup {NoId}

\* the session type the clients ask for ("Human/AI": its channel list holds
\* every channel of the other types), and the texts a client sends
SessionTypes == {"Human/AI"}
\* the two session types the landing page offers
AllSessionTypes == {"Human/AI", "Human/Human"}
Texts        == {"hello"}
Paths        == {"/a.py"}
BusMessages  == {"m"}
\* what can arrive on a channel: the text of an envelope { data: {...} } as
\* the agents publish it, and a text that JSON.parse rejects
EnvelopeTexts   == {"{\"data\":{\"data_type\":\"text\",\"text\":\"hi\"}}"}
MalformedTexts  == {"{\"data\":"}
InboundPayloads == EnvelopeTexts \cup MalformedTexts

\* JSON.parse(text) succeeds and gives an object with a data field
ParsesAsEnvelope(text) == text \in EnvelopeTexts

\* what a client types where the content of the request matters: a text,
\* or a text that is also a path
IntentTexts  == Texts \cup Paths

\* the two copies of the server in the repository
Builds == {"server", "jackjane"}

VARIABLES
    build,          \* which copy of the server runs
    cap,            \* the limits of the run: uuids generated, commands
                    \* awaiting the subscriber, fetches awaiting the sandbox
    fetches,        \* init_process handlers awaiting their fetch
    raced,          \* ids whose kill_session passed its check while their
                    \* create_session was still awaiting the subscribe
    connected,      \* the sockets that are connected now
    activeSessions, \* the registry: sessionId -> {channels, sessionType}
    rooms,          \* socket.io rooms: sessionId -> sockets joined to it
    listeners,      \* subscriber: subscribed channel -> the sessionId its
                    \* listener closure captured
    nextId,         \* the next uuid uuidv4() returns
    cmdQueue,       \* subscriber commands sent, not yet executed by redis
    replyQueue,     \* commands executed, their handler not yet resumed
    killed,         \* ids for which kill_session answered success:true
    last,           \* the handler step that ran last
    reply,          \* what that step passed to the ack callback
    emitted,        \* what that step emitted to sockets
    published,      \* what that step published on the bus
    intent,         \* the message / path / content / command fields of the
                    \* request that step handled
    rejoin,         \* that step was a join_session of a socket that was
                    \* in the room of the session already
    \* the WebSocket provider of the browser
    state,          \* the state of useReducer(webSocketReducer, initialState)
    websocketRef,   \* websocketRef.current: Null or "open"
    sessionIdRef,   \* sessionIdRef.current
    messageListeners, \* the 'message' listeners the promises have added to
                    \* the socket, in the order they were added
    promises        \* the promises the provider has returned, with the
                    \* request each one stands for

vars == <<build, cap, fetches, raced, connected, activeSessions, rooms, listeners, nextId,
          cmdQueue, replyQueue, killed, last, reply, emitted, published,
          intent, rejoin, state, websocketRef, sessionIdRef,
          messageListeners, promises>>

\* the provider's variables, and the relay's without the last step
clientVars == <<state, websocketRef, sessionIdRef, messageListeners, promises>>
relayVars  == <<build, cap, fetches, raced, connected, activeSessions, rooms,
                listeners, nextId, cmdQueue, replyQueue, killed, reply,
                emitted, published, intent, rejoin>>

\* ------------------------------------------------------- channel naming
\* the channel name without the session id (the global channels of the
\* commented-out allowedChannels)
ChanNoId(name, sessionId) == <<name, NoId>>

\* `Name:${sessionId}`, kept as its two parts
Chan(name, sessionId) == <<name, sessionId>>

\* the text of a session id, and the text of a channel as redis sees it
UuidText(sessionId) == ToString(sessionId)
ChannelName(ch) == ch[1] \o ":" \o UuidText(ch[2])

ChannelsOfServer(sessionId, sessionType) ==
    IF sessionType = "Human/AI"
    THEN << Chan("Scene:Jack", sessionId), Chan("Scene:Jane", sessionId),
            Chan("Human:Jack", sessionId), Chan("Jack:Human", sessionId),
            Chan("Agent:Runtime", sessionId), Chan("Runtime:Agent", sessionId) >>
    ELSE << Chan("Human:Jack", sessionId), Chan("Jack:Human", sessionId),
            Chan("Agent:Runtime", sessionId), Chan("Runtime:Agent", sessionId) >>

ChannelsOfJackJane(sessionId, sessionType) ==
    IF sessionType = "Human/AI"
    THEN << Chan("Jack:Jane", sessionId), Chan("Jane:Jack", sessionId),
            Chan("Scene:Jack", sessionId), Chan("Scene:Jane", sessionId),
            Chan("Human:Jack", sessionId), Chan("Jack:Human", sessionId),
            Chan("Agent:Runtime", sessionId), Chan("Runtime:Agent", sessionId) >>
    ELSE << Chan("Human:Jack", sessionId), Chan("Jack:Human", sessionId),
            Chan("Agent:Runtime", sessionId), Chan("Runtime:Agent", sessionId) >>

getAllowedChannels(sessionId, sessionType) ==
    IF build = "server" THEN ChannelsOfServer(sessionId, sessionType)
                        ELSE ChannelsOfJackJane(sessionId, sessionType)

Range(seq) == {seq[i] : i \in 1..Len(seq)}

ChannelNames == {"Jack:Jane", "Jane:Jack", "Scene:Jack", "Scene:Jane",
                 "Human:Jack", "Jack:Human", "Agent:Runtime", "Runtime:Agent"}
AllChannels  == ChannelNames \X SessionIds

\* ------------------------------------------------------------- outputs
NoStep    == [act |-> "none", conn |-> 0, sid |-> NoId]
NoReply   == [conn |-> 0, body |-> "none", sid |-> NoId]
NoEmit    == [event |-> "none", room |-> NoId, to |-> {}, payload |-> << >>]
NoPublish == [channel |-> <<"", NoId>>, message |-> << >>]

\* the fields of chat_message { message }, save_file { path, content } and
\* terminal_command { command }
NoIntent == [argument |-> "", path |-> "", sent |-> FALSE]
Intent(argument, path) == [argument |-> argument, path |-> path, sent |-> TRUE]

Step(act, conn, sid) == [act |-> act, conn |-> conn, sid |-> sid]

\* callback({ sessionId }) / callback({ success: ... }): the ack goes back
\* to the socket that sent the request
Callback(conn, body, sid) == [conn |-> conn, body |-> body, sid |-> sid]

\* JSON.stringify: the text of an object; a text is not the object
JSON_stringify(obj) == <<"json", obj>>

\* io.emit instead of io.to(room).emit: every connected socket
ToRoomBroadcast(room) == connected

\* io.to(room): socket.io hands the packet to the sockets that are in the
\* room now
ToRoom(room) == rooms[room]

\* io.to(room).emit(event, payload)
EmitToRoom(event, room, payload) ==
    [event |-> event, room |-> room, to |-> ToRoom(room), payload |-> payload]

\* socket.emit(event, payload)
EmitToSocket(event, conn, payload) ==
    [event |-> event, room |-> NoId, to |-> {conn} \cap connected,
     payload |-> payload]

\* argument and path exchanged
AgentActionSwapped(action_type, argument, path) ==
    [data |-> [agent_name |-> "user", action_type |-> action_type,
               argument |-> path, path |-> argument,
               data_type |-> "agent_action"]]

\* { data: { agent_name: "user", action_type, argument, path,
\*           data_type: "agent_action" } }
AgentAction(action_type, argument, path) ==
    [data |-> [agent_name |-> "user", action_type |-> action_type,
               argument |-> argument, path |-> path,
               data_type |-> "agent_action"]]

\* redisClient.publish(channel, message)
Publish(channel, message) == [channel |-> channel, message |-> message]

\* activeSessions[sessionId] is truthy
HasSession(sessionId) == sessionId \in DOMAIN activeSessions

Inflight == Len(cmdQueue) + Len(replyQueue)

\* --------------------------------------------- the provider's reducer
\* null, and the values the provider's strings take
Null             == "null"
ClientSessionIds == {"s1", "s2"}
ClientTypes      == AllSessionTypes \cup {"unknown"}
ErrorTexts       == {"WebSocket error occurred"}

\* what a message of the socket parses to: { success?, session_id? } (a
\* field that is absent is "undefined")
Payload(success, session_id) ==
    [success |-> success, session_id |-> session_id]
Payloads ==
    {Payload(b, "undefined") : b \in {"true", "false", "undefined"}}
       \cup {Payload("undefined", s) : s \in ClientSessionIds}

initialState ==
    [connected |-> FALSE, messages |-> << >>, currentSessionId |-> Null,
     sessionType |-> Null, error |-> Null]

\* the actions of the reducer, by type
ConnectedActions    == {[type |-> "CONNECTED"]}
DisconnectedActions == {[type |-> "DISCONNECTED"]}
MessageActions      == {[type |-> "MESSAGE_RECEIVED", payload |-> d] :
                           d \in Payloads}
SetSessionActions   == {[type |-> "SET_SESSION", sessionId |-> s,
                         sessionType |-> t] :
                           s \in ClientSessionIds, t \in ClientTypes}
ClearSessionActions == {[type |-> "CLEAR_SESSION"]}
SetErrorActions     == {[type |-> "SET_ERROR", payload |-> e] :
                           e \in ErrorTexts}
ClearErrorActions   == {[type |-> "CLEAR_ERROR"]}
ClearMessagesActions == {[type |-> "CLEAR_MESSAGES"]}

\* CLEAR_SESSION clears the session id and keeps the session type
webSocketReducerHalfClear(st, action) ==
    CASE action.type = "CONNECTED" ->
            [st EXCEPT !.connected = TRUE, !.error = Null]
      [] action.type = "DISCONNECTED" -> [st EXCEPT !.connected = FALSE]
      [] action.type = "MESSAGE_RECEIVED" ->
            [st EXCEPT !.messages = Append(@, action.payload)]
      [] action.type = "SET_SESSION" ->
            [st EXCEPT !.currentSessionId = action.sessionId,
                       !.sessionType = action.sessionType]
      [] action.type = "CLEAR_SESSION" ->
            [st EXCEPT !.currentSessionId = Null]
      [] action.type = "SET_ERROR" -> [st EXCEPT !.error = action.payload]
      [] action.type = "CLEAR_ERROR" -> [st EXCEPT !.error = Null]
      [] action.type = "CLEAR_MESSAGES" -> [st EXCEPT !.messages = << >>]
      [] OTHER -> st

webSocketReducer(st, action) ==
    CASE action.type = "CONNECTED" ->
            [st EXCEPT !.connected = TRUE, !.error = Null]
      [] action.type = "DISCONNECTED" -> [st EXCEPT !.connected = FALSE]
      [] action.type = "MESSAGE_RECEIVED" ->
            [st EXCEPT !.messages = Append(@, action.payload)]
      [] action.type = "SET_SESSION" ->
            [st EXCEPT !.currentSessionId = action.sessionId,
                       !.sessionType = action.sessionType]
      [] action.type = "CLEAR_SESSION" ->
            [st EXCEPT !.currentSessionId = Null, !.sessionType = Null]
      [] action.type = "SET_ERROR" -> [st EXCEPT !.error = action.payload]
      [] action.type = "CLEAR_ERROR" -> [st EXCEPT !.error = Null]
      [] action.type = "CLEAR_MESSAGES" -> [st EXCEPT !.messages = << >>]
      [] OTHER -> st

\* ------------------------------------------------------------- initial
\* the limits of the lifecycle specification
LifecycleCap == [sessions |-> MaxSessions, inflight |-> MaxInflight,
                 fetches |-> 0]

InitWith(b, limits) ==
    /\ build = b
    /\ cap = limits
    /\ fetches = {}
    /\ raced = {}
    /\ connected = {}
    /\ activeSessions = << >>
    /\ rooms = [s \in SessionIds |-> {}]
    /\ listeners = << >>
    /\ nextId = 1
    /\ cmdQueue = << >>
    /\ replyQueue = << >>
    /\ killed = {}
    /\ last = NoStep
    /\ reply = NoReply
    /\ emitted = NoEmit
    /\ published = NoPublish
    /\ intent = NoIntent
    /\ rejoin = FALSE
    /\ state = initialState
    /\ websocketRef = Null
    /\ sessionIdRef = Null
    /\ messageListeners = << >>
    /\ promises = << >>

Init == InitWith("server", LifecycleCap)

\* --------------------------------------------------- connection events
\* the requests of socket c whose handler has not finished
Pending(c) == {i \in 1..Len(cmdQueue) : cmdQueue[i].conn = c}
                \cup {i \in 1..Len(replyQueue) : replyQueue[i].conn = c}

\* io.on('connection'): a new socket, in no room.  The name of a socket
\* that has gone is used again once its handlers have finished.
Connect(c) ==
    /\ c \notin connected
    /\ Pending(c) = {}
    /\ \A f \in fetches : f.conn # c
    /\ connected' = connected \cup {c}
    /\ last' = Step("connection", c, NoId)
    /\ reply' = NoReply /\ emitted' = NoEmit /\ published' = NoPublish
    /\ intent' = NoIntent
    /\ rejoin' = FALSE
    /\ UNCHANGED clientVars
    /\ UNCHANGED <<build, cap, fetches, raced, activeSessions, rooms,
                   listeners, nextId, cmdQueue, replyQueue, killed>>

\* a disconnect that tears down the sessions it leaves without a member
DisconnectDestroysEmpty(c) ==
    /\ c \in connected
    /\ connected' = connected \ {c}
    /\ rooms' = [s \in SessionIds |-> rooms[s] \ {c}]
    /\ LET kept == {s \in DOMAIN activeSessions :
                       c \notin rooms[s] \/ rooms[s] # {c}}
       IN /\ activeSessions' = [s \in kept |-> activeSessions[s]]
          /\ listeners' = [ch \in {x \in DOMAIN listeners : x[2] \in kept}
                               |-> listeners[ch]]
    /\ last' = Step("disconnect", c, NoId)
    /\ reply' = NoReply /\ emitted' = NoEmit /\ published' = NoPublish
    /\ intent' = NoIntent
    /\ rejoin' = FALSE
    /\ UNCHANGED clientVars
    /\ UNCHANGED <<build, cap, fetches, raced, nextId, cmdQueue, replyQueue,
                   killed>>

\* socket.on('disconnect'): the handler only logs; socket.io itself has
\* taken the socket out of every room
Disconnect(c) ==
    /\ c \in connected
    /\ connected' = connected \ {c}
    /\ rooms' = [s \in SessionIds |-> rooms[s] \ {c}]
    /\ last' = Step("disconnect", c, NoId)
    /\ reply' = NoReply /\ emitted' = NoEmit /\ published' = NoPublish
    /\ intent' = NoIntent
    /\ rejoin' = FALSE
    /\ UNCHANGED clientVars
    /\ UNCHANGED <<build, cap, fetches, raced, activeSessions, listeners,
                   nextId, cmdQueue, replyQueue, killed>>

\* ------------------------------------------------------ create_session
\* up to `await subscriber.subscribe(...)`: the registry entry is written
\* and the SUBSCRIBE command is sent
uuidv4 == nextId

\* the handler with the id that uuidv4() returned
CreateWith(c, sessionType, sessionId) ==
    /\ c \in connected
    /\ Inflight < cap.inflight
    /\ LET channels == getAllowedChannels(sessionId, sessionType)
       IN /\ activeSessions' =
                 [s \in DOMAIN activeSessions \cup {sessionId} |->
                     IF s = sessionId
                     THEN [channels |-> channels, sessionType |-> sessionType]
                     ELSE activeSessions[s]]
          /\ cmdQueue' = Append(cmdQueue,
                 [cmd |-> "subscribe", channels |-> channels,
                  sessionId |-> sessionId, conn |-> c])
          /\ last' = Step("create_session", c, sessionId)
    /\ reply' = NoReply /\ emitted' = NoEmit /\ published' = NoPublish
    /\ intent' = NoIntent
    /\ rejoin' = FALSE
    /\ UNCHANGED clientVars
    /\ UNCHANGED <<build, cap, fetches, raced, connected, rooms, listeners,
                   replyQueue, killed>>

\* uuidv4() returns an id that no session has had
create_session(c, sessionType) ==
    /\ nextId <= cap.sessions
    /\ CreateWith(c, sessionType, uuidv4)
    /\ nextId' = nextId + 1

\* uuidv4() returns the id of a session that is in the registry
create_session_collision(c, sessionType) ==
    /\ \E sessionId \in DOMAIN activeSessions :
          CreateWith(c, sessionType, sessionId)
    /\ UNCHANGED nextId

\* the socket leaves the room if it is in it already
SocketJoinToggle(c, room) ==
    IF c \in connected
    THEN [rooms EXCEPT ![room] = IF c \in @ THEN @ \ {c} ELSE @ \cup {c}]
    ELSE rooms

\* the socket.join left out
SocketJoinForgot(c, room) == rooms

\* socket.join(room): a socket that has disconnected meanwhile is not
\* reached by any later emit to the room
SocketJoin(c, room) ==
    IF c \in connected
    THEN [rooms EXCEPT ![room] = @ \cup {c}]
    ELSE rooms

\* after the await: callback({ sessionId }); socket.join(sessionId).  A
\* rejected subscribe leaves the async handler through the await.
create_session_resume ==
    /\ replyQueue # << >>
    /\ Head(replyQueue).cmd = "subscribe"
    /\ LET r == Head(replyQueue)
       IN /\ IF r.ok
             THEN /\ last' = Step("create_session_resume", r.conn,
                                  r.sessionId)
                  /\ reply' = Callback(r.conn, "sessionId", r.sessionId)
                  /\ rooms' = SocketJoin(r.conn, r.sessionId)
             ELSE /\ last' = Step("unhandledRejection", r.conn, r.sessionId)
                  /\ reply' = NoReply
                  /\ UNCHANGED rooms
    /\ replyQueue' = Tail(replyQueue)
    /\ emitted' = NoEmit /\ published' = NoPublish
    /\ intent' = NoIntent
    /\ rejoin' = FALSE
    /\ UNCHANGED clientVars
    /\ UNCHANGED <<build, cap, fetches, raced, connected, activeSessions,
                   listeners, nextId, cmdQueue, killed>>

\* -------------------------------------------------------- join_session
\* `if (!sessionId)` as in the publishing handlers, instead of the
\* registry lookup: any non-empty id is joined
join_session_truthyCheck(c, sessionId) ==
    /\ c \in connected
    /\ last' = Step("join_session", c, sessionId)
    /\ IF sessionId = NoId
       THEN /\ reply' = Callback(c, "success:false", sessionId)
            /\ UNCHANGED rooms
       ELSE /\ rooms' = SocketJoin(c, sessionId)
            /\ reply' = Callback(c, "success:true", sessionId)
    /\ emitted' = NoEmit /\ published' = NoPublish
    /\ intent' = NoIntent
    /\ rejoin' = (sessionId \in SessionIds /\ c \in rooms[sessionId])
    /\ UNCHANGED clientVars
    /\ UNCHANGED <<build, cap, fetches, raced, connected, activeSessions,
                   listeners, nextId, cmdQueue, replyQueue, killed>>

join_session(c, sessionId) ==
    /\ c \in connected
    /\ last' = Step("join_session", c, sessionId)
    /\ IF ~HasSession(sessionId)
       THEN /\ reply' = Callback(c, "success:false", sessionId)
            /\ UNCHANGED rooms
       ELSE /\ rooms' = SocketJoin(c, sessionId)
            /\ reply' = Callback(c, "success:true", sessionId)
    /\ emitted' = NoEmit /\ published' = NoPublish
    /\ intent' = NoIntent
    /\ rejoin' = (sessionId \in SessionIds /\ c \in rooms[sessionId])
    /\ UNCHANGED clientVars
    /\ UNCHANGED <<build, cap, fetches, raced, connected, activeSessions,
                   listeners, nextId, cmdQueue, replyQueue, killed>>

\* -------------------------------------------------------- kill_session
\* the create_session of the session has not resumed from its subscribe
CreateInFlight(sessionId) ==
    \/ \E i \in 1..Len(cmdQueue) :
          cmdQueue[i].cmd = "subscribe" /\ cmdQueue[i].sessionId = sessionId
    \/ \E i \in 1..Len(replyQueue) :
          replyQueue[i].cmd = "subscribe"
          /\ replyQueue[i].sessionId = sessionId

\* `if (!sessionId)` as in the other handlers, instead of the registry
\* lookup: an unknown id goes on to the unsubscribe
kill_session_truthyCheck(c, sessionId) ==
    /\ c \in connected
    /\ last' = Step("kill_session", c, sessionId)
    /\ IF sessionId = NoId
       THEN /\ reply' = Callback(c, "success:false", sessionId)
            /\ UNCHANGED cmdQueue
       ELSE /\ Inflight < cap.inflight
            /\ cmdQueue' = Append(cmdQueue,
                   [cmd |-> "unsubscribe",
                    channels |-> IF HasSession(sessionId)
                                 THEN activeSessions[sessionId].channels
                                 ELSE << >>,
                    sessionId |-> sessionId, conn |-> c])
            /\ reply' = NoReply
    /\ raced' = IF HasSession(sessionId) /\ CreateInFlight(sessionId)
                THEN raced \cup {sessionId} ELSE raced
    /\ emitted' = NoEmit /\ published' = NoPublish
    /\ intent' = NoIntent
    /\ rejoin' = FALSE
    /\ UNCHANGED clientVars
    /\ UNCHANGED <<build, cap, fetches, connected, activeSessions, rooms,
                   listeners, nextId, replyQueue, killed>>

\* up to `await subscriber.unsubscribe(channels)`
kill_session(c, sessionId) ==
    /\ c \in connected
    /\ last' = Step("kill_session", c, sessionId)
    /\ IF ~HasSession(sessionId)
       THEN /\ reply' = Callback(c, "success:false", sessionId)
            /\ UNCHANGED cmdQueue
       ELSE /\ Inflight < cap.inflight
            /\ cmdQueue' = Append(cmdQueue,
                   [cmd |-> "unsubscribe",
                    channels |-> activeSessions[sessionId].channels,
                    sessionId |-> sessionId, conn |-> c])
            /\ reply' = NoReply
    /\ raced' = IF HasSession(sessionId) /\ CreateInFlight(sessionId)
                THEN raced \cup {sessionId} ELSE raced
    /\ emitted' = NoEmit /\ published' = NoPublish
    /\ intent' = NoIntent
    /\ rejoin' = FALSE
    /\ UNCHANGED clientVars
    /\ UNCHANGED <<build, cap, fetches, connected, activeSessions, rooms,
                   listeners, nextId, replyQueue, killed>>

\* the delete left out
DeleteSessionForgot(sessionId) == activeSessions

\* delete activeSessions[sessionId]
DeleteSession(sessionId) ==
    [s \in DOMAIN activeSessions \ {sessionId} |-> activeSessions[s]]

\* after the await: io.to(sessionId).emit('session_terminated');
\* delete activeSessions[sessionId]; callback({ success: true })
kill_session_resume ==
    /\ replyQueue # << >>
    /\ Head(replyQueue).cmd = "unsubscribe"
    /\ LET r == Head(replyQueue)
       IN /\ IF r.ok
             THEN /\ last' = Step("kill_session_resume", r.conn,
                                  r.sessionId)
                  /\ emitted' = EmitToRoom("session_terminated", r.sessionId,
                                           << >>)
                  /\ activeSessions' = DeleteSession(r.sessionId)
                  /\ reply' = Callback(r.conn, "success:true", r.sessionId)
                  /\ killed' = killed \cup {r.sessionId}
             ELSE /\ last' = Step("unhandledRejection", r.conn, r.sessionId)
                  /\ emitted' = NoEmit
                  /\ reply' = NoReply
                  /\ UNCHANGED <<activeSessions, killed>>
    /\ replyQueue' = Tail(replyQueue)
    /\ published' = NoPublish
    /\ intent' = NoIntent
    /\ rejoin' = FALSE
    /\ UNCHANGED clientVars
    /\ UNCHANGED <<build, cap, fetches, raced, connected, rooms, listeners,
                   nextId, cmdQueue>>

\* ------------------------------------------------- the redis subscriber
\* subscriber.subscribe(channels, listener): every channel gets the
\* listener, whose closure holds the sessionId of the create_session call
Subscribe(channels, sessionId) ==
    [ch \in DOMAIN listeners \cup Range(channels) |->
        IF ch \in Range(channels) THEN sessionId ELSE listeners[ch]]

\* unsubscribe(channels[0]) instead of unsubscribe(channels)
UnsubscribeFirstOnly(channels) ==
    [ch \in DOMAIN listeners \ {channels[1]} |-> listeners[ch]]

\* the last channel of the list stays subscribed
UnsubscribeAllButLast(channels) ==
    [ch \in DOMAIN listeners \ Range(SubSeq(channels, 1, Len(channels) - 1))
        |-> listeners[ch]]

\* the unsubscribe left out
UnsubscribeNothing(channels) == listeners

\* subscriber.unsubscribe(channels)
Unsubscribe(channels) ==
    [ch \in DOMAIN listeners \ Range(channels) |-> listeners[ch]]

\* the commands overtake each other (one connection per command): redis
\* executes the newest command first
BusExecuteNewestFirst(ok) ==
    /\ cmdQueue # << >>
    /\ LET r == cmdQueue[Len(cmdQueue)]
       IN /\ listeners' =
                 IF ~ok THEN listeners
                 ELSE IF r.cmd = "subscribe"
                      THEN Subscribe(r.channels, r.sessionId)
                      ELSE Unsubscribe(r.channels)
          /\ replyQueue' = Append(replyQueue,
                 [cmd |-> r.cmd, channels |-> r.channels,
                  sessionId |-> r.sessionId, conn |-> r.conn, ok |-> ok])
          /\ last' = Step("bus_execute", r.conn, r.sessionId)
    /\ cmdQueue' = SubSeq(cmdQueue, 1, Len(cmdQueue) - 1)
    /\ reply' = NoReply /\ emitted' = NoEmit /\ published' = NoPublish
    /\ intent' = NoIntent
    /\ rejoin' = FALSE
    /\ UNCHANGED clientVars
    /\ UNCHANGED <<build, cap, fetches, raced, connected, activeSessions,
                   rooms, nextId, killed>>

\* redis executes the oldest command of the subscriber connection, or the
\* command fails (ok = FALSE) and its promise rejects
BusExecute(ok) ==
    /\ cmdQueue # << >>
    /\ LET r == Head(cmdQueue)
       IN /\ listeners' =
                 IF ~ok THEN listeners
                 ELSE IF r.cmd = "subscribe"
                      THEN Subscribe(r.channels, r.sessionId)
                      ELSE Unsubscribe(r.channels)
          /\ replyQueue' = Append(replyQueue,
                 [cmd |-> r.cmd, channels |-> r.channels,
                  sessionId |-> r.sessionId, conn |-> r.conn, ok |-> ok])
          /\ last' = Step("bus_execute", r.conn, r.sessionId)
    /\ cmdQueue' = Tail(cmdQueue)
    /\ reply' = NoReply /\ emitted' = NoEmit /\ published' = NoPublish
    /\ intent' = NoIntent
    /\ rejoin' = FALSE
    /\ UNCHANGED clientVars
    /\ UNCHANGED <<build, cap, fetches, raced, connected, activeSessions,
                   rooms, nextId, killed>>

\* socket.emit-like delivery: the message goes to one socket of the room
\* only, not to the room
BusDeliverOneMember(ch, message) ==
    /\ ch \in DOMAIN listeners
    /\ emitted' =
          [event |-> "new_message", room |-> listeners[ch],
           to |-> IF rooms[listeners[ch]] = {} THEN {}
                  ELSE {CHOOSE c \in rooms[listeners[ch]] :
                           \A d \in rooms[listeners[ch]] : c <= d},
           payload |-> [channels |-> ch, message |-> message]]
    /\ last' = Step("bus_message", 0, listeners[ch])
    /\ reply' = NoReply /\ published' = NoPublish
    /\ intent' = NoIntent
    /\ rejoin' = FALSE
    /\ UNCHANGED clientVars
    /\ UNCHANGED <<build, cap, fetches, raced, connected, activeSessions,
                   rooms, listeners, nextId, cmdQueue, replyQueue, killed>>

\* a message arrives on a subscribed channel: the listener of line 83 runs,
\* io.to(sessionId).emit('new_message', { channels, message })
BusDeliver(ch, message) ==
    /\ ch \in DOMAIN listeners
    /\ emitted' = EmitToRoom("new_message", listeners[ch],
                             [channels |-> ch, message |-> message])
    /\ last' = Step("bus_message", 0, listeners[ch])
    /\ reply' = NoReply /\ published' = NoPublish
    /\ intent' = NoIntent
    /\ rejoin' = FALSE
    /\ UNCHANGED clientVars
    /\ UNCHANGED <<build, cap, fetches, raced, connected, activeSessions,
                   rooms, listeners, nextId, cmdQueue, replyQueue, killed>>

\* ------------------------------------------------- the outbound intents
\* a chat_message that also puts the sender in the room of the session
chat_message_joins(c, sessionId, message, pubOk) ==
    /\ c \in connected
    /\ last' = Step("chat_message", c, sessionId)
    /\ published' =
          IF sessionId = NoId \/ ~pubOk THEN NoPublish
          ELSE Publish(Chan("Human:Jack", sessionId),
                       JSON_stringify(AgentAction("speak", message, "")))
    /\ rooms' = IF sessionId = NoId THEN rooms ELSE SocketJoin(c, sessionId)
    /\ reply' = NoReply /\ emitted' = NoEmit
    /\ intent' = Intent(message, "")
    /\ rejoin' = FALSE
    /\ UNCHANGED clientVars
    /\ UNCHANGED <<build, cap, fetches, raced, connected, activeSessions,
                   listeners, nextId, cmdQueue, replyQueue, killed>>

\* chat_message: publish on Human:Jack:<sessionId>; a failed publish is
\* logged
chat_message(c, sessionId, message, pubOk) ==
    /\ c \in connected
    /\ last' = Step("chat_message", c, sessionId)
    /\ published' =
          IF sessionId = NoId \/ ~pubOk THEN NoPublish
          ELSE Publish(Chan("Human:Jack", sessionId),
                       JSON_stringify(AgentAction("speak", message, "")))
    /\ reply' = NoReply /\ emitted' = NoEmit
    /\ intent' = Intent(message, "")
    /\ rejoin' = FALSE
    /\ UNCHANGED clientVars
    /\ UNCHANGED <<build, cap, fetches, raced, connected, activeSessions,
                   rooms, listeners, nextId, cmdQueue, replyQueue, killed>>

\* save_file: publish on Agent:Runtime:<sessionId>
save_file(c, sessionId, path, content, pubOk) ==
    /\ c \in connected
    /\ last' = Step("save_file", c, sessionId)
    /\ published' =
          IF sessionId = NoId \/ ~pubOk THEN NoPublish
          ELSE Publish(Chan("Agent:Runtime", sessionId),
                       JSON_stringify(AgentAction("write", content, path)))
    /\ reply' = NoReply /\ emitted' = NoEmit
    /\ intent' = Intent(content, path)
    /\ rejoin' = FALSE
    /\ UNCHANGED clientVars
    /\ UNCHANGED <<build, cap, fetches, raced, connected, activeSessions,
                   rooms, listeners, nextId, cmdQueue, replyQueue, killed>>

\* terminal_command: publish on Agent:Runtime:<sessionId>; a failed
\* publish is reported to the sender as a new_message
terminal_command(c, sessionId, command, pubOk) ==
    /\ c \in connected
    /\ last' = Step("terminal_command", c, sessionId)
    /\ published' =
          IF sessionId = NoId \/ ~pubOk THEN NoPublish
          ELSE Publish(Chan("Agent:Runtime", sessionId),
                       JSON_stringify(AgentAction("run", command, "")))
    /\ emitted' =
          IF sessionId # NoId /\ ~pubOk
          THEN EmitToSocket("new_message", c,
                   [channel |-> Chan("Runtime:Agent", sessionId),
                    message |-> JSON_stringify(
                        [data |-> [data_type |-> "text", text |-> "Error"]])])
          ELSE NoEmit
    /\ reply' = NoReply
    /\ intent' = Intent(command, "")
    /\ rejoin' = FALSE
    /\ UNCHANGED clientVars
    /\ UNCHANGED <<build, cap, fetches, raced, connected, activeSessions,
                   rooms, listeners, nextId, cmdQueue, replyQueue, killed>>

\* -------------------------------------------------------- init_process
\* what the fetch of http://localhost:5000/initialize can end in: a 2xx
\* answer with status 'initialized', a 2xx answer with another status, a
\* non-2xx answer with { error }, a rejected fetch
FetchOutcomes == {"initialized", "other_status", "not_ok", "rejected"}

\* up to `await fetch(...)`: nothing at all for an empty sessionId
init_process(c, sessionId) ==
    /\ c \in connected
    /\ last' = Step("init_process", c, sessionId)
    /\ IF sessionId = NoId
       THEN UNCHANGED fetches
       ELSE /\ Cardinality(fetches) < cap.fetches
            /\ fetches' = fetches \cup {[conn |-> c, sessionId |-> sessionId]}
    /\ reply' = NoReply /\ emitted' = NoEmit /\ published' = NoPublish
    /\ intent' = NoIntent
    /\ rejoin' = FALSE
    /\ UNCHANGED clientVars
    /\ UNCHANGED <<build, cap, raced, connected, activeSessions, rooms,
                   listeners, nextId, cmdQueue, replyQueue, killed>>

\* { success: true, sessionId } / { success: false, error: err.message }
InitProcessResult(outcome, sessionId) ==
    IF outcome = "initialized"
    THEN [success |-> TRUE, sessionId |-> sessionId, error |-> ""]
    ELSE [success |-> FALSE, sessionId |-> NoId, error |-> outcome]

\* after the await: the try block emits the result to the socket of the
\* request, the catch block the failure
init_process_response(f, outcome) ==
    /\ f \in fetches
    /\ fetches' = fetches \ {f}
    /\ last' = Step("init_process_response", f.conn, f.sessionId)
    /\ emitted' = EmitToSocket("init_process_result", f.conn,
                               InitProcessResult(outcome, f.sessionId))
    /\ reply' = NoReply /\ published' = NoPublish
    /\ intent' = NoIntent
    /\ rejoin' = FALSE
    /\ UNCHANGED clientVars
    /\ UNCHANGED <<build, cap, raced, connected, activeSessions, rooms,
                   listeners, nextId, cmdQueue, replyQueue, killed>>

\* ------------------------------------------------------ specification
\* The relay on a bus that works (the transport the relay is specified
\* against): every subscriber command is executed, every publish accepted.
Next ==
    \/ \E c \in Conns : Connect(c)
    \/ \E c \in Conns : Disconnect(c)
    \/ \E c \in Conns, t \in SessionTypes : create_session(c, t)
    \/ create_session_resume
    \/ \E c \in Conns, s \in ClientIds : join_session(c, s)
    \/ \E c \in Conns, s \in ClientIds : kill_session(c, s)
    \/ kill_session_resume
    \/ BusExecute(TRUE)
    \/ \E ch \in AllChannels, m \in BusMessages : BusDeliver(ch, m)
    \/ \E c \in Conns, s \in ClientIds, m \in Texts :
          chat_message(c, s, m, TRUE)
    \/ \E c \in Conns, s \in ClientIds, p \in Paths, m \in Texts :
          save_file(c, s, p, m, TRUE)
    \/ \E c \in Conns, s \in ClientIds, m \in Texts :
          terminal_command(c, s, m, TRUE)

Spec == Init /\ [][Next]_vars

\* The relay with overlapping handlers: several create_session and
\* kill_session calls await the subscriber at the same time
ConcurrentCap == [sessions |-> MaxFocusSessions, inflight |-> MaxConcurrent,
                  fetches |-> 0]

InitConcurrent == InitWith("server", ConcurrentCap)

SpecConcurrent == InitConcurrent /\ [][Next]_vars

\* The relay with the sandbox bridge: init_process and the answers of the
\* sandbox backend
SandboxCap == [sessions |-> MaxFocusSessions, inflight |-> MaxInflight,
               fetches |-> MaxFetches]

InitSandbox == InitWith("server", SandboxCap)

NextSandbox ==
    \/ Next
    \/ \E c \in Conns, s \in ClientIds : init_process(c, s)
    \/ \E f \in fetches, o \in FetchOutcomes : init_process_response(f, o)

SpecSandbox == InitSandbox /\ [][NextSandbox]_vars

\* The relay takes every step of its own that it can take; nothing makes
\* the sandbox backend answer.
RelaySteps ==
    \/ create_session_resume
    \/ kill_session_resume
    \/ BusExecute(TRUE)

SpecSandboxFair == SpecSandbox /\ WF_vars(RelaySteps)

\* The relay when uuidv4() repeats the id of a live session
CollisionCap == [sessions |-> MaxFocusSessions, inflight |-> MaxInflight,
                 fetches |-> 0]

InitCollision == InitWith("server", CollisionCap)

NextCollision ==
    \/ Next
    \/ \E c \in Conns, t \in AllSessionTypes : create_session_collision(c, t)

SpecCollision == InitCollision /\ [][NextCollision]_vars

\* Either copy of the server, with sessions of both types: the handlers
\* that change the registry and the subscriptions
InitKinds ==
    \E b \in Builds : InitWith(b, LifecycleCap)

NextKinds ==
    \/ \E c \in Conns : Connect(c)
    \/ \E c \in Conns : Disconnect(c)
    \/ \E c \in Conns, t \in AllSessionTypes : create_session(c, t)
    \/ create_session_resume
    \/ \E c \in Conns, s \in ClientIds : kill_session(c, s)
    \/ kill_session_resume
    \/ BusExecute(TRUE)

SpecKinds == InitKinds /\ [][NextKinds]_vars

\* The outbound intents with everything a client can type, on a bus that
\* works
NextIntents ==
    \/ \E c \in Conns : Connect(c)
    \/ \E c \in Conns : Disconnect(c)
    \/ \E c \in Conns, t \in SessionTypes : create_session(c, t)
    \/ create_session_resume
    \/ \E c \in Conns, s \in ClientIds : join_session(c, s)
    \/ BusExecute(TRUE)
    \/ \E c \in Conns, s \in ClientIds, m \in IntentTexts :
          chat_message(c, s, m, TRUE)
    \/ \E c \in Conns, s \in ClientIds, p \in Paths, m \in IntentTexts :
          save_file(c, s, p, m, TRUE)
    \/ \E c \in Conns, s \in ClientIds, m \in IntentTexts :
          terminal_command(c, s, m, TRUE)

SpecIntents == Init /\ [][NextIntents]_vars

\* The inbound side with well-formed and malformed payloads on the bus
NextInbound ==
    \/ \E c \in Conns : Connect(c)
    \/ \E c \in Conns : Disconnect(c)
    \/ \E c \in Conns, t \in SessionTypes : create_session(c, t)
    \/ create_session_resume
    \/ \E c \in Conns, s \in ClientIds : join_session(c, s)
    \/ BusExecute(TRUE)
    \/ \E ch \in AllChannels, m \in InboundPayloads : BusDeliver(ch, m)

SpecInbound == Init /\ [][NextInbound]_vars

\* The same relay on a bus that can fail: a subscribe or unsubscribe may
\* reject (its handler then ends in an unhandled rejection) and a publish
\* may throw into the handler's catch.
NextFaulty ==
    \/ \E c \in Conns : Connect(c)
    \/ \E c \in Conns : Disconnect(c)
    \/ \E c \in Conns, t \in SessionTypes : create_session(c, t)
    \/ create_session_resume
    \/ \E c \in Conns, s \in ClientIds : join_session(c, s)
    \/ \E c \in Conns, s \in ClientIds : kill_session(c, s)
    \/ kill_session_resume
    \/ \E ok \in BOOLEAN : BusExecute(ok)
    \/ \E ch \in AllChannels, m \in BusMessages : BusDeliver(ch, m)
    \/ \E c \in Conns, s \in ClientIds, m \in Texts, ok \in BOOLEAN :
          chat_message(c, s, m, ok)
    \/ \E c \in Conns, s \in ClientIds, p \in Paths, m \in Texts,
          ok \in BOOLEAN : save_file(c, s, p, m, ok)
    \/ \E c \in Conns, s \in ClientIds, m \in Texts, ok \in BOOLEAN :
          terminal_command(c, s, m, ok)

SpecFaulty == Init /\ [][NextFaulty]_vars

\* Every handler of the sockets with every outcome of its publish or
\* fetch, on a subscriber that works
NextEffects ==
    \/ \E c \in Conns : Connect(c)
    \/ \E c \in Conns : Disconnect(c)
    \/ \E c \in Conns, t \in SessionTypes : create_session(c, t)
    \/ create_session_resume
    \/ \E c \in Conns, s \in ClientIds : join_session(c, s)
    \/ \E c \in Conns, s \in ClientIds : kill_session(c, s)
    \/ kill_session_resume
    \/ BusExecute(TRUE)
    \/ \E c \in Conns, s \in ClientIds, m \in Texts, ok \in BOOLEAN :
          chat_message(c, s, m, ok)
    \/ \E c \in Conns, s \in ClientIds, p \in Paths, m \in Texts,
          ok \in BOOLEAN : save_file(c, s, p, m, ok)
    \/ \E c \in Conns, s \in ClientIds, m \in Texts, ok \in BOOLEAN :
          terminal_command(c, s, m, ok)
    \/ \E c \in Conns, s \in ClientIds : init_process(c, s)
    \/ \E f \in fetches, o \in FetchOutcomes : init_process_response(f, o)

SpecEffects == InitSandbox /\ [][NextEffects]_vars

\* ------------------------------------------- the provider's reducer
\* dispatch(action): React applies webSocketReducer to the state
dispatch(action) ==
    /\ action.type = "MESSAGE_RECEIVED" => Len(state.messages) < MaxMessages
    /\ state' = webSocketReducer(state, action)
    /\ last' = Step(action.type, 0, NoId)
    /\ UNCHANGED <<websocketRef, sessionIdRef, messageListeners, promises>>
    /\ UNCHANGED relayVars

\* The reducer under every sequence of actions
NextReducer ==
    \/ \E a \in ConnectedActions : dispatch(a)
    \/ \E a \in DisconnectedActions : dispatch(a)
    \/ \E a \in MessageActions : dispatch(a)
    \/ \E a \in SetSessionActions : dispatch(a)
    \/ \E a \in ClearSessionActions : dispatch(a)
    \/ \E a \in SetErrorActions : dispatch(a)
    \/ \E a \in ClearErrorActions : dispatch(a)
    \/ \E a \in ClearMessagesActions : dispatch(a)

SpecReducer == Init /\ [][NextReducer]_vars

\* ----------------------------------------- the provider's requests
\* a promise the provider has returned: the request it stands for, what
\* its closure captured, whether the server has answered the request, how
\* it was settled and by the answer to which request
Promise(kind, sessionId, sessionType, status) ==
    [kind |-> kind, sessionId |-> sessionId, sessionType |-> sessionType,
     status |-> status, value |-> Null, by |-> 0, answered |-> FALSE]

\* connect(): new WebSocket(...); ws.onopen dispatches CONNECTED
connect ==
    /\ websocketRef = Null
    /\ websocketRef' = "open"
    /\ state' = webSocketReducer(state, [type |-> "CONNECTED"])
    /\ last' = Step("connect", 0, NoId)
    /\ UNCHANGED <<sessionIdRef, messageListeners, promises>>
    /\ UNCHANGED relayVars

\* the body of `new Promise(...)` of the five requests: reject when the
\* precondition fails, otherwise send the command and add a 'message'
\* listener to the socket
Request(kind, sessionId, sessionType, precondition) ==
    /\ Len(promises) < MaxRequests
    /\ IF precondition
       THEN /\ promises' = Append(promises,
                   Promise(kind, sessionId, sessionType, "pending"))
            /\ messageListeners' = Append(messageListeners, Len(promises) + 1)
       ELSE /\ promises' = Append(promises,
                   Promise(kind, sessionId, sessionType, "rejected"))
            /\ UNCHANGED messageListeners
    /\ UNCHANGED <<state, websocketRef, sessionIdRef>>
    /\ UNCHANGED relayVars

createSession(sessionType) ==
    /\ Request("createSession", Null, sessionType, websocketRef # Null)
    /\ last' = Step("createSession", 0, NoId)

\* the listener will dispatch sessionType: state.sessionType || 'unknown'
joinSession(sessionId) ==
    /\ Request("joinSession", sessionId,
               IF state.sessionType = Null THEN "unknown"
                                           ELSE state.sessionType,
               websocketRef # Null)
    /\ last' = Step("joinSession", 0, NoId)

killSession(sessionId) ==
    /\ Request("killSession", sessionId, Null, websocketRef # Null)
    /\ last' = Step("killSession", 0, NoId)

initAgentConversation ==
    /\ Request("initAgentConversation", state.currentSessionId, Null,
               state.currentSessionId # Null /\ websocketRef # Null)
    /\ last' = Step("initAgentConversation", 0, NoId)

initProcess ==
    /\ Request("initProcess", sessionIdRef, Null,
               sessionIdRef # Null /\ websocketRef # Null)
    /\ last' = Step("initProcess", 0, NoId)

\* resolve(value) of promise l, while the message on the socket is the
\* answer to request `by`
Resolve(ps, l, value, by) ==
    [ps EXCEPT ![l].status = "resolved", ![l].value = value, ![l].by = by]

\* handleMessage of promise l for the parsed message `data`: what it does
\* to the reducer state, the promises, sessionIdRef and the listeners.  A
\* listener that takes the message removes itself.
HandleMessage(acc, l, data, by) ==
    LET p == acc.promises[l]
    IN IF p.kind = "createSession"
       THEN IF data.session_id # "undefined"
            THEN [state |-> webSocketReducer(acc.state,
                              [type |-> "SET_SESSION",
                               sessionId |-> data.session_id,
                               sessionType |-> p.sessionType]),
                  promises |-> Resolve(acc.promises, l, data.session_id, by),
                  sessionIdRef |-> data.session_id,
                  kept |-> acc.kept]
            ELSE [acc EXCEPT !.kept = Append(@, l)]
       ELSE IF data.success # "undefined"
            THEN [state |->
                     IF p.kind = "joinSession" /\ data.success = "true"
                     THEN webSocketReducer(acc.state,
                              [type |-> "SET_SESSION",
                               sessionId |-> p.sessionId,
                               sessionType |-> p.sessionType])
                     ELSE IF p.kind = "killSession" /\ data.success = "true"
                     THEN webSocketReducer(acc.state,
                              [type |-> "CLEAR_SESSION"])
                     ELSE acc.state,
                  promises |-> Resolve(acc.promises, l, data.success, by),
                  sessionIdRef |-> acc.sessionIdRef,
                  kept |-> acc.kept]
            ELSE [acc EXCEPT !.kept = Append(@, l)]

\* the socket dispatches the message event to its listeners in the order
\* they were added
RECURSIVE RunListeners(_, _, _, _)
RunListeners(acc, ls, data, by) ==
    IF ls = << >> THEN acc
    ELSE RunListeners(HandleMessage(acc, Head(ls), data, by), Tail(ls),
                      data, by)

\* what the server answers to a request: { session_id } to createSession,
\* { success } to the others
AnswersTo(p) ==
    IF p.kind = "createSession"
    THEN {Payload("undefined", s) : s \in ClientSessionIds}
    ELSE {Payload(b, "undefined") : b \in {"true", "false"}}

\* the answer to request i arrives: ws.onmessage dispatches
\* MESSAGE_RECEIVED, then every listener on the socket gets the event
onmessage(i, data) ==
    /\ i \in 1..Len(promises)
    /\ promises[i].status # "rejected"
    /\ ~promises[i].answered
    /\ data \in AnswersTo(promises[i])
    /\ Len(state.messages) < MaxMessages
    /\ LET acc == RunListeners(
                     [state |-> webSocketReducer(state,
                                   [type |-> "MESSAGE_RECEIVED",
                                    payload |-> data]),
                      promises |-> [promises EXCEPT ![i].answered = TRUE],
                      sessionIdRef |-> sessionIdRef,
                      kept |-> << >>],
                     messageListeners, data, i)
       IN /\ state' = acc.state
          /\ promises' = acc.promises
          /\ sessionIdRef' = acc.sessionIdRef
          /\ messageListeners' = acc.kept
    /\ last' = Step("onmessage", 0, NoId)
    /\ UNCHANGED websocketRef
    /\ UNCHANGED relayVars

\* clearMessages()
clearMessages ==
    /\ state.messages # << >>
    /\ dispatch([type |-> "CLEAR_MESSAGES"])

\* The provider with the server answering its requests in any order
NextClient ==
    \/ connect
    \/ \E t \in AllSessionTypes : createSession(t)
    \/ \E s \in ClientSessionIds : joinSession(s)
    \/ \E s \in ClientSessionIds : killSession(s)
    \/ initAgentConversation
    \/ initProcess
    \/ \E i \in 1..MaxRequests, d \in Payloads : onmessage(i, d)
    \/ clearMessages

SpecClient == Init /\ [][NextClient]_vars

\* ===================================================== the properties
\* the channels of a session id, subscribed now
SubscribedOf(sessionId) == {ch \in DOMAIN listeners : ch[2] = sessionId}

\* the sockets that are members of the session a request names
MembersOf(sessionId) == IF sessionId \in SessionIds THEN rooms[sessionId] ELSE {}

\* a kill_session of the session has passed its check and not yet resumed
KillInFlight(sessionId) ==
    \/ \E i \in 1..Len(cmdQueue) :
          cmdQueue[i].cmd = "unsubscribe" /\ cmdQueue[i].sessionId = sessionId
    \/ \E i \in 1..Len(replyQueue) :
          replyQueue[i].cmd = "unsubscribe"
          /\ replyQueue[i].sessionId = sessionId

\* C1 -- fan-out isolation: a bus message on a channel of session A is
\* emitted as new_message to members of A only, and to no socket that is a
\* member of another session B and not of A.
C1_FanOutIsolation ==
    (last.act = "bus_message" /\ emitted.event = "new_message") =>
        LET A == emitted.payload.channels[2]
        IN /\ emitted.to \subseteq rooms[A]
           /\ \A B \in SessionIds \ {A} :
                 emitted.to \cap (rooms[B] \ rooms[A]) = {}

\* two live sessions, a message of one of them reaches a member, and the
\* other session has a member that is not in the first
C1_Witness ==
    /\ last.act = "bus_message"
    /\ emitted.to # {}
    /\ \E B \in DOMAIN activeSessions \ {last.sid} :
          /\ last.sid \in DOMAIN activeSessions
          /\ rooms[B] \ rooms[last.sid] # {}

\* C2 (as claimed) -- in every state a session is in the registry if and
\* only if all of its channels are subscribed.
C2_RegistryIffSubscribed ==
    /\ \A s \in DOMAIN activeSessions :
          Range(activeSessions[s].channels) \subseteq DOMAIN listeners
    /\ \A ch \in DOMAIN listeners : ch[2] \in DOMAIN activeSessions

\* C2 (amended) -- no orphaned subscription: every subscribed channel is a
\* channel of a session that is in the registry.
C2_NoOrphanSubscription ==
    \A ch \in DOMAIN listeners :
        /\ ch[2] \in DOMAIN activeSessions
        /\ ch \in Range(activeSessions[ch[2]].channels)

\* a session has been killed while another one stays subscribed
C2_Witness ==
    /\ killed # {}
    /\ DOMAIN listeners # {}
    /\ last.act = "kill_session_resume"

\* C3 (as claimed) -- chat_message, save_file and terminal_command of a
\* socket that is not a member of the session it names publish nothing.
C3_NonMemberPublishesNothing ==
    (/\ last.act \in {"chat_message", "save_file", "terminal_command"}
     /\ last.conn \notin MembersOf(last.sid))
        => published = NoPublish

\* C4 (as claimed) -- a socket is a member of at most one session.
C4_AtMostOneSession ==
    \A c \in Conns : Cardinality({s \in SessionIds : c \in rooms[s]}) <= 1

\* C5 -- no resurrection: a join_session of a session whose kill_session
\* has answered success:true answers success:false and adds nobody.
C5_NoResurrection ==
    [][(last'.act = "join_session" /\ last'.sid \in killed) =>
          (reply'.body = "success:false" /\ rooms' = rooms)]_vars

\* a join of a killed session, by a socket that is not in its room
C5_Witness ==
    /\ last.act = "join_session"
    /\ last.sid \in killed
    /\ last.conn \notin rooms[last.sid]
    /\ reply = Callback(last.conn, "success:false", last.sid)

C8_KillOrder ==
    [][/\ last'.act = "kill_session_resume" =>
            /\ SubscribedOf(last'.sid) = {}
            /\ emitted'.event = "session_terminated"
            /\ emitted'.to = rooms[last'.sid]
            /\ last'.sid \notin DOMAIN activeSessions'
            /\ reply' = Callback(last'.conn, "success:true", last'.sid)
       /\ \A s \in DOMAIN activeSessions \ DOMAIN activeSessions' :
            SubscribedOf(s) = {}]_vars

\* a kill has finished and told a member
C8_Witness ==
    /\ last.act = "kill_session_resume"
    /\ emitted.event = "session_terminated"
    /\ emitted.to # {}
    /\ reply.body = "success:true"

\* C9 (as claimed) -- after a successful kill_session the room of the
\* session is empty.
C9_MembersEvicted ==
    \A s \in killed : rooms[s] = {}

\* C10 (as claimed) -- a join_session of a session whose kill_session is in
\* flight never answers success:true.
C10_NoJoinDuringKill ==
    (last.act = "join_session" /\ KillInFlight(last.sid))
        => reply.body # "success:true"

\* a handler of the session awaits the subscriber
InFlight(sessionId) == CreateInFlight(sessionId) \/ KillInFlight(sessionId)

\* C11 -- kill_session during an in-flight create_session of the same id:
\* once no handler of the session awaits the subscriber, the session is in
\* the registry with all its channels subscribed, or it is not in the
\* registry and none of its channels is subscribed.
C11_SettledAfterRace ==
    \A s \in 1..(nextId - 1) :
        ~InFlight(s) =>
            IF s \in DOMAIN activeSessions
            THEN Range(activeSessions[s].channels) \subseteq DOMAIN listeners
            ELSE SubscribedOf(s) = {}

\* the kill_session that overlapped the create_session has finished
C11_Witness ==
    /\ last.act = "kill_session_resume"
    /\ last.sid \in raced
    /\ ~InFlight(last.sid)
    /\ last.sid \notin DOMAIN activeSessions

\* C12 (as claimed) -- teardown happens once: no kill_session answers
\* success:true (and broadcasts session_terminated) for a session that an
\* earlier kill_session has already torn down.
C12_TeardownOnce ==
    [][(last'.act = "kill_session_resume" /\ last'.sid \in killed) =>
          (reply'.body = "success:false" /\ emitted' = NoEmit)]_vars

\* the commands of a client that name a session
SessionCommands == {"join_session", "kill_session", "chat_message",
                    "save_file", "terminal_command"}

\* the step answered success:false, as a callback or as a result event
AnsweredFalse ==
    \/ reply = Callback(last.conn, "success:false", last.sid)
    \/ /\ emitted.event = "init_process_result"
       /\ emitted.payload.success = FALSE
       /\ emitted.to = {last.conn}

C14_InitProcessAnswered ==
    /\ last.act = "init_process" =>
          [conn |-> last.conn, sessionId |-> last.sid] \in fetches
    /\ (last.act = "init_process_response" /\ emitted.payload.success) =>
          MembersOf(last.sid) \cap connected \subseteq emitted.to

\* C15 (as claimed) -- an init_process whose fetch the sandbox never
\* answers still ends in an init_process_result for the requester (unless
\* the requester has gone).
C15_InitEventuallyAnswered ==
    \A c \in Conns, s \in SessionIds :
        ([conn |-> c, sessionId |-> s] \in fetches)
            ~> (last = Step("init_process_response", c, s)
                \/ c \notin connected)

\* the step resumes a handler whose subscriber command was rejected
RejectedResume(cmd) ==
    /\ replyQueue # << >>
    /\ Head(replyQueue).cmd = cmd
    /\ ~Head(replyQueue).ok
    /\ replyQueue' = Tail(replyQueue)

\* C16 (as claimed) -- a kill_session whose unsubscribe fails still removes
\* the registry entry and answers the caller.
C16_FailedKillStillRemoves ==
    [][RejectedResume("unsubscribe") =>
          /\ Head(replyQueue).sessionId \notin DOMAIN activeSessions'
          /\ reply'.conn = Head(replyQueue).conn
          /\ reply'.body \in {"success:true", "success:false"}]_vars

\* C17 (as claimed) -- a create_session whose subscribe fails does not end
\* in an unhandled rejection: the caller gets a response and the registry
\* keeps no entry for the session.
C17_FailedCreateHandled ==
    [][RejectedResume("subscribe") =>
          /\ last'.act # "unhandledRejection"
          /\ reply'.conn = Head(replyQueue).conn
          /\ Head(replyQueue).sessionId \notin DOMAIN activeSessions']_vars

\* C18 (as claimed) -- a create_session whose id is already in the
\* registry fails and leaves the entry, the subscriber and the rooms as
\* they are.
C18_DuplicateIdRejected ==
    [][(last'.act = "create_session" /\ last'.sid \in DOMAIN activeSessions)
          => UNCHANGED <<activeSessions, cmdQueue, listeners, rooms>>]_vars

\* C19 (as claimed) -- when create_session has completed, the session is in
\* the registry with 8 subscribed channels if it is paired ("Human/AI") and
\* with 4 otherwise.
C19_ChannelCounts ==
    (/\ last.act = "create_session_resume"
     /\ last.sid \in DOMAIN activeSessions
     /\ ~KillInFlight(last.sid))
        => Cardinality(SubscribedOf(last.sid)) =
              IF activeSessions[last.sid].sessionType = "Human/AI"
              THEN 8 ELSE 4

\* the channel names of a channel list
NamesOf(channels) == {ChannelName(ch) : ch \in Range(channels)}

\* C20 -- the channel lists of two distinct session ids share no channel
\* name, whatever the session types: for the lists getAllowedChannels
\* returns and for the lists in the registry.
C20_NoChannelCollision ==
    /\ \A s1, s2 \in SessionIds, t1, t2 \in AllSessionTypes :
          s1 # s2 =>
             NamesOf(getAllowedChannels(s1, t1))
                \cap NamesOf(getAllowedChannels(s2, t2)) = {}
    /\ \A s1, s2 \in DOMAIN activeSessions :
          s1 # s2 =>
             NamesOf(activeSessions[s1].channels)
                \cap NamesOf(activeSessions[s2].channels) = {}

\* two sessions of different types are in the registry and subscribed
C20_Witness ==
    \E s1, s2 \in DOMAIN activeSessions :
        /\ activeSessions[s1].sessionType # activeSessions[s2].sessionType
        /\ SubscribedOf(s1) # {}
        /\ SubscribedOf(s2) # {}

\* the three handlers that publish
IntentActs == {"chat_message", "save_file", "terminal_command"}

\* C21 -- an intent with a session id publishes once, as serialized text, on
\* the channel of its kind and of the session it names: chat_message on
\* Human:Jack:<id> with 'speak', the message and an empty path; save_file on
\* Agent:Runtime:<id> with 'write', the content and the path;
\* terminal_command on Agent:Runtime:<id> with 'run', the command and an
\* empty path.  No other step publishes.
C21_IntentPublication ==
    IF last.act \in IntentActs /\ last.sid # NoId
    THEN /\ published # NoPublish
         /\ published.channel =
               << IF last.act = "chat_message" THEN "Human:Jack"
                                                ELSE "Agent:Runtime",
                  last.sid >>
         /\ published.message[1] = "json"
         /\ published.message[2].data =
               [agent_name  |-> "user",
                action_type |-> CASE last.act = "chat_message" -> "speak"
                                  [] last.act = "save_file" -> "write"
                                  [] OTHER -> "run",
                argument    |-> intent.argument,
                path        |-> IF last.act = "save_file" THEN intent.path
                                                          ELSE "",
                data_type   |-> "agent_action"]
    ELSE published = NoPublish

\* a member saves a file whose content is not its path, while another
\* session is in the registry
C21_Witness ==
    /\ last.act = "save_file"
    /\ last.sid \in DOMAIN activeSessions
    /\ last.conn \in rooms[last.sid]
    /\ intent.argument # intent.path
    /\ published.channel[2] = last.sid
    /\ DOMAIN activeSessions \ {last.sid} # {}

\* C22 -- the creator of a session whose create_session has completed and a
\* socket whose join_session answered success:true both get every message
\* of the session's channels as new_message: a completed create and a
\* successful join put the socket in the room; a socket in a room stays in
\* it until it disconnects; while the session is in the registry and no
\* handler of it awaits the subscriber, each of its channels has the
\* listener of the session; the listener emits new_message to every socket
\* in the room.
C22_DeliveredToCreatorAndJoiner ==
    /\ [](\A s \in DOMAIN activeSessions :
             ~InFlight(s) =>
                \A ch \in Range(activeSessions[s].channels) :
                    ch \in DOMAIN listeners /\ listeners[ch] = s)
    /\ [][/\ (/\ last'.act = "create_session_resume"
              /\ reply' = Callback(last'.conn, "sessionId", last'.sid)
              /\ last'.conn \in connected)
                => last'.conn \in rooms'[last'.sid]
          /\ (last'.act = "join_session" /\ reply'.body = "success:true")
                => last'.conn \in rooms'[last'.sid]
          /\ \A s \in SessionIds : rooms[s] \cap connected' \subseteq rooms'[s]
          /\ last'.act = "bus_message"
                => /\ emitted'.event = "new_message"
                   /\ emitted'.room = last'.sid
                   /\ emitted'.to = rooms'[last'.sid]
                   /\ emitted'.to \subseteq connected']_vars

\* a message of a session that is in the registry, with no handler in
\* flight, reaches two sockets
C22_Witness ==
    /\ last.act = "bus_message"
    /\ emitted.event = "new_message"
    /\ last.sid \in DOMAIN activeSessions
    /\ ~InFlight(last.sid)
    /\ Cardinality(emitted.to) >= 2

\* C23 (as claimed) -- every new_message carries the payload
\* { channel, message }: the fan-out of a bus message with the channel it
\* arrived on and the message as received, and the error path of
\* terminal_command alike.
C23_NewMessagePayload ==
    emitted.event = "new_message" =>
        /\ DOMAIN emitted.payload = {"channel", "message"}
        /\ last.act = "bus_message" =>
              /\ emitted.payload.channel \in DOMAIN listeners
              /\ emitted.payload.message \in BusMessages

C25_MalformedDropped ==
    (/\ last.act = "bus_message"
     /\ emitted.event = "new_message"
     /\ emitted.to # {})
        => ParsesAsEnvelope(emitted.payload.message)

\* C26 -- joining is idempotent: a join_session of an existing session by a
\* socket that is in its room already (it joined before, or it created the
\* session) answers success:true, leaves every room as it is and adds no
\* listener and no subscriber command, so a later bus message still
\* reaches the socket once, as one of the sockets of the room.
C26_JoinIdempotent ==
    [][/\ (/\ last'.act = "join_session"
           /\ last'.sid \in DOMAIN activeSessions
           /\ last'.conn \in rooms[last'.sid])
             => /\ reply' = Callback(last'.conn, "success:true", last'.sid)
                /\ UNCHANGED <<rooms, listeners, cmdQueue, replyQueue,
                               activeSessions>>
       /\ last'.act = "bus_message"
             => /\ emitted'.to = rooms[last'.sid]
                /\ emitted'.room = last'.sid]_vars

\* a socket joins a session of which it is a member
C26_Witness ==
    /\ last.act = "join_session"
    /\ rejoin
    /\ reply = Callback(last.conn, "success:true", last.sid)
    /\ last.conn \in rooms[last.sid]

\* C27 -- only kill_session destroys a session: a disconnect changes
\* neither the registry nor the subscriptions and sends no subscriber
\* command; a registry entry disappears only when a kill_session resumes
\* for it; a join_session of a session that is in the registry succeeds
\* also when its room is empty.
C27_OnlyKillDestroys ==
    [][/\ last'.act = "disconnect"
             => UNCHANGED <<activeSessions, listeners, cmdQueue, replyQueue>>
       /\ \A s \in DOMAIN activeSessions \ DOMAIN activeSessions' :
             last' = Step("kill_session_resume", last'.conn, s)
       /\ (/\ last'.act = "join_session"
           /\ last'.sid \in DOMAIN activeSessions
           /\ rooms[last'.sid] = {})
             => /\ reply' = Callback(last'.conn, "success:true", last'.sid)
                /\ rooms'[last'.sid] = {last'.conn}]_vars

\* every socket has disconnected; a session is still in the registry with
\* its channels subscribed
C27_Witness ==
    /\ last.act = "disconnect"
    /\ connected = {}
    /\ \E s \in DOMAIN activeSessions :
          /\ ~InFlight(s)
          /\ rooms[s] = {}
          /\ Range(activeSessions[s].channels) \subseteq DOMAIN listeners

\* the steps of the handlers that only publish or call the sandbox
RelayOnlyActs == IntentActs \cup {"init_process", "init_process_response"}

\* C28 -- chat_message, save_file, terminal_command and init_process leave
\* the registry, the channel lists, the rooms, the subscriptions and the
\* subscriber's commands as they are, whatever the publish or the fetch
\* ends in.  The registry changes only in create_session and kill_session,
\* the subscriptions only when the subscriber executes their commands, and
\* a room gains a socket only in create_session and join_session (it loses
\* one only when socket.io disconnects it).
C28_FrameOfHandlers ==
    [][/\ last'.act \in RelayOnlyActs
             => UNCHANGED <<activeSessions, rooms, listeners, cmdQueue,
                            replyQueue>>
       /\ activeSessions' # activeSessions
             => last'.act \in {"create_session", "kill_session_resume"}
       /\ cmdQueue' # cmdQueue
             => last'.act \in {"create_session", "kill_session", "bus_execute"}
       /\ listeners' # listeners => last'.act = "bus_execute"
       /\ (\E s \in SessionIds : rooms'[s] \ rooms[s] # {})
             => last'.act \in {"create_session_resume", "join_session"}
       /\ (\E s \in SessionIds : rooms[s] \ rooms'[s] # {})
             => last'.act = "disconnect"]_vars

\* a member's terminal_command whose publish failed, reported to it, with
\* the session still subscribed
C28_Witness ==
    /\ last.act = "terminal_command"
    /\ emitted.event = "new_message"
    /\ emitted.to = {last.conn}
    /\ last.sid \in DOMAIN activeSessions
    /\ last.conn \in rooms[last.sid]
    /\ Range(activeSessions[last.sid].channels) \subseteq DOMAIN listeners

\* the requests whose promise waits for a message with a success field
SuccessWaiters == {"joinSession", "killSession", "initAgentConversation",
                   "initProcess"}

\* C29 (as claimed) -- every promise that waits for a success field is
\* resolved by the answer to its own request, never by the answer to
\* another request that was outstanding on the socket.
C29_ResolvedByOwnResponse ==
    \A i \in 1..Len(promises) :
        (promises[i].kind \in SuccessWaiters /\ promises[i].status = "resolved")
            => promises[i].by = i

\* C30 -- in the provider's state currentSessionId is null if and only if
\* sessionType is null: SET_SESSION sets both, CLEAR_SESSION clears both,
\* and CONNECTED, DISCONNECTED, MESSAGE_RECEIVED, SET_ERROR, CLEAR_ERROR and
\* CLEAR_MESSAGES leave both as they are.
C30_SessionFieldsTogether ==
    /\ [](state.currentSessionId = Null <=> state.sessionType = Null)
    /\ [][/\ last'.act = "SET_SESSION"
                => /\ state'.currentSessionId # Null
                   /\ state'.sessionType # Null
          /\ last'.act = "CLEAR_SESSION"
                => /\ state'.currentSessionId = Null
                   /\ state'.sessionType = Null
          /\ last'.act \in {"CONNECTED", "DISCONNECTED", "MESSAGE_RECEIVED",
                            "SET_ERROR", "CLEAR_ERROR", "CLEAR_MESSAGES"}
                => /\ state'.currentSessionId = state.currentSessionId
                   /\ state'.sessionType = state.sessionType]_vars

\* the socket has closed and the provider still has its session
C30_Witness ==
    /\ last.act = "DISCONNECTED"
    /\ ~state.connected
    /\ state.currentSessionId # Null
    /\ state.sessionType # Null

====
